---- MODULE Spec2Model ----
(***************************************************************************)
(* A model of wink.plugins.Projection (src/js/projection.js): a widget     *)
(* that parses the <section> elements of a container into a list of        *)
(* layers ordered by depth and animates a current depth (_currPos) toward  *)
(* the depth of the next or previous layer with a self-rescheduling timer. *)
(*                                                                         *)
(* The widget object is the record This; every method of the prototype is  *)
(* an operator from the object before the call to the object after it.     *)
(* JavaScript indexes arrays from 0 and TLA+ sequences from 1: indices     *)
(* (_used, the values of _map) keep their JavaScript value and At reads    *)
(* an array at a JavaScript index.                                         *)
(***************************************************************************)
EXTENDS Integers, Sequences, FiniteSets

(* ------------------------------ bounds --------------------------------- *)
\* sections found by wink.query('section', target)
MaxSections == 3
\* depth annotations range over 0..MaxDepth
MaxDepth == 3
\* properties.speed ranges over 1..MaxSpeed
MaxSpeed == 2

(* ------------------------------ values --------------------------------- *)
\* JavaScript null, as a number no depth, index or timer id takes
null == -1000
\* element.id of a section that carries no id attribute (the empty string)
NoId == 0

Depths == 0..MaxDepth
\* the values the page passes to setDepth
SetDepthValues == {0, MaxDepth}
Speeds == 1..MaxSpeed

\* a number in arithmetic and comparisons: null counts as 0
Num(x) == IF x = null THEN 0 ELSE x

\* A className, as far as the plugin reads it: does it match the prefix
\* (layers_prefix_class), and which digits follow the prefix, if any.
NoClass == [prefix |-> FALSE, digits |-> <<>>]
BadClass == [prefix |-> TRUE, digits |-> <<>>]
DepthClass(d) == [prefix |-> TRUE, digits |-> <<d>>]
ClassNames == {NoClass, BadClass} \cup {DepthClass(d) : d \in Depths}

CallbackNames == {"startSliding", "sliding", "endSliding"}

\* array[i] for a JavaScript index i that is in range
At(array, i) == array[i + 1]
\* wink.isSet(array[i])
HasIndex(array, i) == i + 1 \in 1..Len(array)

VARIABLES
    properties,   \* the properties object the constructor was given
    list_sections,\* the sections of the target, as wink.query finds them
    layers,       \* this.layers: sequence of [element, depth, children]
    speed,        \* this.speed
    _callbacks,   \* the names of this._callbacks that hold a callback
    _map,         \* this._map: element id -> index in layers
    _used,        \* this._used: index of the current pannel
    _timeout,     \* this._timeout: null or the id of the last timer set
    _startPos,    \* this._startPos
    _currPos,     \* this._currPos
    _endPos,      \* this._endPos
    translateZ,   \* the translateZ written to each layer and child element
    timers,       \* the event loop: pending setTimeout calls [id, depth]
    reentrant,    \* what the page's callbacks do: [cb, op] when the callback
                  \* cb calls the move method op the next time it is invoked
    calls,        \* callbacks invoked since the last accepted move request
    path,         \* _currPos at construction or at the last accepted move
                  \* request, and after each _moveTo invocation since; calls
                  \* and path are empty once setDepth has interfered
    hist          \* the last two accepted move requests: [op, from], the
                  \* method called and the index of the pannel it found

vars == <<properties, list_sections, layers, speed, _callbacks, _map, _used, _timeout, _startPos,
          _currPos, _endPos, translateZ, timers, reentrant, calls, path, hist>>

\* the widget object and what it has written to its environment
This ==
    [layers |-> layers, speed |-> speed, _callbacks |-> _callbacks,
     _map |-> _map, _used |-> _used, _timeout |-> _timeout,
     _startPos |-> _startPos, _currPos |-> _currPos, _endPos |-> _endPos,
     translateZ |-> translateZ, timers |-> timers, reentrant |-> reentrant,
     calls |-> calls, path |-> path]

\* the next state holds the object this
Becomes(this) ==
    /\ layers' = this.layers
    /\ speed' = this.speed
    /\ _callbacks' = this._callbacks
    /\ _map' = this._map
    /\ _used' = this._used
    /\ _timeout' = this._timeout
    /\ _startPos' = this._startPos
    /\ _currPos' = this._currPos
    /\ _endPos' = this._endPos
    /\ translateZ' = this.translateZ
    /\ timers' = this.timers
    /\ reentrant' = this.reentrant
    /\ calls' = this.calls
    /\ path' = this.path
    /\ UNCHANGED <<properties, list_sections>>

(* ----------------------------- getters --------------------------------- *)
getCurrentPanel(this) == this._used


\* past the last pannel the index wraps around to the first
getNextPannel_wrap(this) ==
    LET next == this._used + 1
        max == Len(this.layers) - 1
    IN IF next > max THEN 0 ELSE next

getNextPannel(this) ==
    LET next == this._used + 1
        max == Len(this.layers) - 1
    IN IF next > max THEN max ELSE next


\* before the first pannel the index wraps around to the last
getPreviousPanel_wrap(this) ==
    LET prev == this._used - 1
    IN IF prev < 0 THEN Len(this.layers) - 1 ELSE prev

\* the clamp taken one pannel too early
getPreviousPanel_early(this) ==
    LET prev == this._used - 1
    IN IF prev <= 1 THEN 0 ELSE prev

getPreviousPanel(this) ==
    LET prev == this._used - 1
    IN IF prev < 0 THEN 0 ELSE prev

_getArgs(this) ==
    [pannel |-> [next |-> getNextPannel(this),
                 current |-> getCurrentPanel(this),
                 prev |-> getPreviousPanel(this)],
     depth |-> [start |-> this._startPos,
                current |-> this._currPos,
                end |-> this._endPos]]

\* if(wink.isCallback(this._callbacks.name)) wink.call(..., this._getArgs()),
\* for a callback that calls no method of the widget
Notify(this, name) ==
    IF name \in this._callbacks
    THEN [this EXCEPT !.calls = Append(@, [cb |-> name, args |-> _getArgs(this)])]
    ELSE this

(* ---------------------------- rendering -------------------------------- *)
\* parseInt of a number that is an integer already
ParseInt(n) == n

\* _translateElements(depth): translateZ(-own depth + depth) on every layer
\* element and on every child element
_translateElements(this, depth) ==
    [this EXCEPT !.translateZ =
        [i \in 1..Len(this.layers) |->
            [z |-> ParseInt(-this.layers[i].depth + depth),
             children |->
                [j \in 1..Len(this.layers[i].children) |->
                    ParseInt(-this.layers[i].children[j].depth + depth)]]]]

(* ---------------------------- animation -------------------------------- *)
\* clearTimeout(id): the pending call with that id, if any, is dropped
ClearTimeout(pending, id) == {t \in pending : t.id # id}

\* the id setTimeout returns: one that no pending call has
NewTimerId(pending) ==
    CHOOSE n \in 1..(Cardinality(pending) + 1) :
        \A t \in pending : t.id # n

\* the timer cleared while _timeout keeps its id
_stopMove_stale(this) == [this EXCEPT !.timers = ClearTimeout(@, this._timeout)]

_stopMove(this) ==
    [this EXCEPT !.timers = ClearTimeout(@, this._timeout),
                 !._timeout = null]

\* the move is over only on the target itself
Converged_exact(this, depth) == Num(this._currPos) = depth

\* the test with >= and <=: over when within one step, the step included
Converged_inclusive(this, depth) ==
    /\ (Num(this._currPos) + this.speed) >= depth
    /\ (Num(this._currPos) - this.speed) <= depth

\* the test _moveTo makes to decide that the move is over
Converged(this, depth) ==
    /\ (Num(this._currPos) + this.speed) > depth
    /\ (Num(this._currPos) - this.speed) < depth

\* the guard of the move requests left out
Animating_never(this) == FALSE

\* the guard of move_forward and move_backward: !wink.isNull(this._timeout)
Animating(this) == this._timeout # null

\* the step always taken upward
Step_up(this, depth) ==
    LET moved == [this EXCEPT !._currPos = Num(this._currPos) + this.speed]
    IN _translateElements(moved, moved._currPos)

\* _currPos moved by one step toward depth, and the elements with it
Step(this, depth) ==
    LET moved == [this EXCEPT !._currPos =
                      IF Num(this._currPos) > depth
                      THEN Num(this._currPos) - this.speed
                      ELSE Num(this._currPos) + this.speed]
    IN _translateElements(moved, moved._currPos)

\* this._timeout = setTimeout(wink.bind(this._moveTo, this), this._fps, depth)
Schedule(this, depth) ==
    LET id == NewTimerId(this.timers)
    IN [this EXCEPT !._timeout = id,
                    !.timers = @ \cup {[id |-> id, depth |-> depth]}]

(* The methods as they run when a callback of the page calls them: the
   callbacks they invoke in turn call no method of the widget. *)
_moveTo_nested(this, depth) ==
    LET after == IF Converged(this, depth)
                 THEN Notify(_stopMove(_translateElements(this, depth)), "endSliding")
                 ELSE Schedule(Notify(Step(this, depth), "sliding"), depth)
    IN [after EXCEPT !.path = Append(@, after._currPos)]

move_forward_nested(this) ==
    IF Animating(this)
    THEN this
    ELSE LET started == [this EXCEPT !._startPos = At(this.layers, this._used).depth]
             next == getNextPannel(started)
             ended == [started EXCEPT !._endPos = At(started.layers, next).depth]
             called == Notify(ended, "startSliding")
             used == [called EXCEPT !._used = next]
         IN _moveTo_nested(used, At(used.layers, used._used).depth)

move_backward_nested(this) ==
    IF Animating(this)
    THEN this
    ELSE LET started == [this EXCEPT !._startPos = At(this.layers, this._used).depth]
             prev == getPreviousPanel(started)
             ended == [started EXCEPT !._endPos = At(started.layers, prev).depth]
             called == Notify(ended, "endSliding")
             used == [called EXCEPT !._used = prev]
         IN _moveTo_nested(used, At(used.layers, used._used).depth)

\* what the callback name of the page does with the widget when it is
\* invoked: nothing, or one call of a move method
Reenter(this, name) ==
    LET requests == {r \in this.reentrant : r.cb = name}
        r == CHOOSE r \in requests : TRUE
        spent == [this EXCEPT !.reentrant = @ \ {r}]
    IN IF requests = {}
       THEN this
       ELSE IF r.op = "forward"
            THEN move_forward_nested(spent)
            ELSE move_backward_nested(spent)

\* if(wink.isCallback(this._callbacks.name)) wink.call(..., this._getArgs())
Call(this, name) ==
    IF name \in this._callbacks
    THEN Reenter(Notify(this, name), name)
    ELSE this

\* the branch of _moveTo taken on convergence
Arrive(this, depth) ==
    Call(_stopMove(_translateElements(this, depth)), "endSliding")

\* the branch with the direction test inverted
Advance_away(this, depth) ==
    LET moved == [this EXCEPT !._currPos =
                      IF Num(this._currPos) < depth
                      THEN Num(this._currPos) - this.speed
                      ELSE Num(this._currPos) + this.speed]
    IN Schedule(Call(_translateElements(moved, moved._currPos), "sliding"), depth)

\* the branch of _moveTo that moves _currPos by one step and reschedules
Advance(this, depth) ==
    Schedule(Call(Step(this, depth), "sliding"), depth)

\* one invocation of _moveTo(depth); path records _currPos after it
_moveTo(this, depth) ==
    LET after == IF Converged(this, depth)
                 THEN Arrive(this, depth)
                 ELSE Advance(this, depth)
    IN [after EXCEPT !.path = Append(@, after._currPos)]

(* ---------------------------- navigation ------------------------------- *)
move_forward(this) ==
    IF Animating(this)
    THEN this
    ELSE LET started == [this EXCEPT !._startPos = At(this.layers, this._used).depth]
             next == getNextPannel(started)
             ended == [started EXCEPT !._endPos = At(started.layers, next).depth]
             called == Call(ended, "startSliding")
             used == [called EXCEPT !._used = next]
         IN _moveTo(used, At(used.layers, used._used).depth)

move_backward(this) ==
    IF Animating(this)
    THEN this
    ELSE LET started == [this EXCEPT !._startPos = At(this.layers, this._used).depth]
             prev == getPreviousPanel(started)
             ended == [started EXCEPT !._endPos = At(started.layers, prev).depth]
             called == Call(ended, "endSliding")
             used == [called EXCEPT !._used = prev]
         IN _moveTo(used, At(used.layers, used._used).depth)

\* setDepth stopping the move in flight before it sets the depth
setDepth_stops(this, value) ==
    _translateElements([_stopMove(this) EXCEPT !._currPos = value], value)

setDepth(this, value) ==
    _translateElements([this EXCEPT !._currPos = value], value)

(* --------------------------- construction ------------------------------ *)
\* _initProperties: the callbacks of properties.callbacks that are callbacks
_initProperties(this, props) ==
    [this EXCEPT !._callbacks =
        {"startSliding" : n \in props.callbacks \cap {"onStartSliding"}}
        \cup {"sliding" : n \in props.callbacks \cap {"onSliding"}}
        \cup {"endSliding" : n \in props.callbacks \cap {"onEndSliding"}}]

\* _initMap: this._map[elem.id] = i for every layer of properties.layers; an
\* element that carries an id has its handle as id
_initMap(this) ==
    [this EXCEPT !._map =
        [id \in {this.layers[i].element : i \in 1..Len(this.layers)} |->
            (CHOOSE i \in 1..Len(this.layers) :
                /\ this.layers[i].element = id
                /\ \A j \in 1..Len(this.layers) :
                       this.layers[j].element = id => j <= i) - 1]]

\* className.match(pattern) is null: reading [1] of it throws a TypeError
NoDepthInClass(className) == className.digits = <<>>

_getDepthFromClass(className) == ParseInt(className.digits[1])

\* the className a child's depth is read from: its own, or its parent's when
\* its own does not match the prefix
ChildClass(domNode, j) ==
    IF ~domNode.children[j].className.prefix
    THEN domNode.className
    ELSE domNode.children[j].className

\* _addLayerItemFromDom throws: no class with the prefix on the section, or
\* no depth to read in its class or in the class of one of its children
AddLayerThrows(domNode) ==
    \/ ~domNode.className.prefix
    \/ NoDepthInClass(domNode.className)
    \/ \E j \in 1..Len(domNode.children) : NoDepthInClass(ChildClass(domNode, j))

\* the layer _addLayerItemFromDom builds from a section
LayerFromDom(domNode) ==
    [children |->
        [j \in 1..Len(domNode.children) |->
            [depth |-> _getDepthFromClass(ChildClass(domNode, j)),
             element |-> domNode.children[j].element]],
     depth |-> _getDepthFromClass(domNode.className),
     element |-> domNode.element]

\* var key = this.layers.push(layer): push returns the new length
Push(array, item) == Len(array) + 1

\* _addLayerItemFromDom, when it does not throw: the layer is pushed and the
\* map sends the section's id to what push returned
_addLayerItemFromDom(this, domNode) ==
    LET layer == LayerFromDom(domNode)
        key == Push(this.layers, layer)
    IN [this EXCEPT !.layers = Append(@, layer),
                    !._map = [id \in DOMAIN this._map \cup {domNode.id} |->
                                 IF id = domNode.id THEN key ELSE this._map[id]]]


\* the start taken from the first layer scanned only
StartDeepest_first(this, layer) ==
    IF this._currPos = null
    THEN [this EXCEPT !._currPos = layer.depth]
    ELSE this

\* "Start by the dephest element"
StartDeepest(this, layer) ==
    IF this._currPos = null \/ this._currPos > layer.depth
    THEN [this EXCEPT !._currPos = layer.depth]
    ELSE this

\* the body of the loop of _parseDOM for one section; a throw inside the try
\* block leaves the section out
ParseSection(this, section) ==
    IF section.id = NoId
    THEN this
    ELSE IF section.id \in DOMAIN this._map /\ HasIndex(this.layers, this._map[section.id])
         THEN StartDeepest(this, At(this.layers, this._map[section.id]))
         ELSE IF AddLayerThrows(section)
              THEN this
              ELSE LET added == _addLayerItemFromDom(this, section)
                   IN StartDeepest(added, added.layers[Len(added.layers)])

\* a.depth - b.depth < 0 puts a before b
Before(a, b) == a.depth - b.depth < 0

RECURSIVE InsertLayer(_, _)
InsertLayer(sorted, layer) ==
    IF sorted = <<>>
    THEN <<layer>>
    ELSE IF Before(layer, Head(sorted))
         THEN <<layer>> \o sorted
         ELSE <<Head(sorted)>> \o InsertLayer(Tail(sorted), layer)

\* Array.prototype.sort with the comparator of _sortLayers, as a stable sort
RECURSIVE SortByDepth(_)
SortByDepth(array) ==
    IF array = <<>>
    THEN <<>>
    ELSE InsertLayer(SortByDepth(SubSeq(array, 1, Len(array) - 1)), array[Len(array)])


\* _sortLayers left out: the layers stay in the order they were collected
_sortLayers_skipped(this) == this

_sortLayers(this) == [this EXCEPT !.layers = SortByDepth(@)]

RECURSIVE ParseSections(_, _, _)

\* the try block around the loop instead of inside it: the first section
\* that throws ends the scan
ParseSections_abort(this, sections, i) ==
    IF i > Len(sections)
    THEN this
    ELSE IF ParseSection(this, sections[i]) = this
         THEN this
         ELSE ParseSections(ParseSection(this, sections[i]), sections, i + 1)

ParseSections(this, sections, i) ==
    IF i > Len(sections)
    THEN this
    ELSE ParseSections(ParseSection(this, sections[i]), sections, i + 1)

_parseDOM(this, sections) ==
    _sortLayers(ParseSections(this, sections, 1))

\* _validateProperties: a target, a positive integer speed and a prefix
\* that is not blank; a failure is logged and reported as false
_validateProperties(props) ==
    /\ props.target
    /\ props.speed \in Int /\ props.speed > 0
    /\ props.layers_prefix_class # ""

\* the constructor: the properties are mixed into the object and the fields
\* get their first values; when _validateProperties fails it returns there
Projection(props, sections) ==
    LET mixed == [layers |-> props.layers, speed |-> props.speed,
                  _callbacks |-> {}, _map |-> <<>>, _used |-> 0,
                  _timeout |-> null, _startPos |-> null, _currPos |-> null,
                  _endPos |-> null, translateZ |-> <<>>, timers |-> {},
                  reentrant |-> {}, calls |-> <<>>, path |-> <<>>]
        parsed == _parseDOM(_initMap(_initProperties(mixed, props)), sections)
    IN IF ~_validateProperties(props)
       THEN mixed
       ELSE _translateElements(parsed, parsed._currPos)

(* ------------------------------ inputs --------------------------------- *)
\* A section of the container with what properties.layers says about it:
\* [section |-> the element, layers |-> its layer in properties.layers, if
\* any]. The k-th section has the handle k, and k as id when it has an id;
\* its j-th child has the handle <<k, j>>.
Section(k, id, className, children) ==
    [element |-> k, id |-> id, className |-> className,
     children |-> [j \in 1..Len(children) |->
                      [element |-> <<k, j>>, className |-> children[j]]]]

\* well formed and discovered from the markup: an id, a depth class, no child
PlainAt(k, depths) ==
    {[section |-> Section(k, k, DepthClass(d), <<>>), layers |-> <<>>] : d \in depths}

\* given in properties.layers with its depth and the depth of its child; its
\* class is not read
ConfiguredAt(k) ==
    {[section |-> Section(k, k, NoClass, <<NoClass>>),
      layers |-> <<[element |-> k, depth |-> d,
                    children |-> <<[element |-> <<k, 1>>, depth |-> MaxDepth]>>]>>] :
        d \in Depths}

\* skipped by the scan: no id, no class with the prefix, no depth in the
\* class, no depth in the class of a child
MalformedAt(k) ==
    {[section |-> Section(k, NoId, DepthClass(0), <<>>), layers |-> <<>>],
     [section |-> Section(k, k, NoClass, <<>>), layers |-> <<>>],
     [section |-> Section(k, k, BadClass, <<>>), layers |-> <<>>],
     [section |-> Section(k, k, DepthClass(0), <<BadClass>>), layers |-> <<>>]}

\* discovered with a child that inherits its parent's depth or has its own
WithChildAt(k) ==
    {[section |-> Section(k, k, DepthClass(d), <<NoClass>>), layers |-> <<>>] :
        d \in Depths}
    \cup {[section |-> Section(k, k, DepthClass(0), <<DepthClass(MaxDepth)>>),
           layers |-> <<>>]}

OddAt(k) == ConfiguredAt(k) \cup MalformedAt(k) \cup WithChildAt(k)

\* the containers of n plain sections with depths among depths
RECURSIVE PlainMarkup(_, _)
PlainMarkup(n, depths) ==
    IF n = 0
    THEN {<<>>}
    ELSE {Append(m, e) : m \in PlainMarkup(n - 1, depths), e \in PlainAt(n, depths)}

\* the containers of n sections of which one is not plain and the others are
\* plain, at the least or the greatest depth
RECURSIVE OddMarkup(_)
OddMarkup(n) ==
    IF n = 0
    THEN {}
    ELSE {Append(m, e) : m \in OddMarkup(n - 1), e \in PlainAt(n, {0, MaxDepth})}
         \cup {Append(m, e) : m \in PlainMarkup(n - 1, {0, MaxDepth}), e \in OddAt(n)}

RECURSIVE LayersOf(_)
LayersOf(markup) ==
    IF markup = <<>>
    THEN <<>>
    ELSE LayersOf(SubSeq(markup, 1, Len(markup) - 1)) \o markup[Len(markup)].layers

AllCallbacks == {"onStartSliding", "onSliding", "onEndSliding"}

\* what the constructor is given: the properties and the sections that
\* wink.query('section', target) finds
Input(markup, s, callbacks) ==
    [properties |-> [target |-> TRUE, layers |-> LayersOf(markup), speed |-> s,
                     layers_prefix_class |-> "depth", callbacks |-> callbacks],
     list_sections |-> [k \in 1..Len(markup) |-> markup[k].section],
     reentrant |-> {}]

Inputs ==
    {Input(markup, s, callbacks) :
        markup \in UNION {PlainMarkup(n, Depths) : n \in 0..MaxSections},
        s \in Speeds, callbacks \in {{}, AllCallbacks}}
    \cup
    {Input(markup, 1, AllCallbacks) :
        markup \in UNION {OddMarkup(n) : n \in 1..MaxSections}}

\* the containers of n sections that are all given in properties.layers, in
\* any order of depth
RECURSIVE ConfiguredMarkup(_)
ConfiguredMarkup(n) ==
    IF n = 0
    THEN {<<>>}
    ELSE {Append(m, e) : m \in ConfiguredMarkup(n - 1), e \in ConfiguredAt(n)}

\* properties that _validateProperties rejects: no target (wink.isSet of it
\* is false), a speed of 0, or an empty prefix
Rejected(props) ==
    {[props EXCEPT !.target = FALSE],
     [props EXCEPT !.speed = 0],
     [props EXCEPT !.layers_prefix_class = ""]}

InvalidInputs ==
    UNION {{[in EXCEPT !.properties = props] : props \in Rejected(in.properties)} :
              in \in {Input(markup, s, {}) :
                          markup \in UNION {ConfiguredMarkup(n) : n \in 0..MaxSections},
                          s \in Speeds}}

\* pages whose start-of-move or progress callback calls a move method of the
\* widget, the first time it is invoked
ReentrantInputs ==
    {[in EXCEPT !.reentrant = {[cb |-> cb, op |-> op]}] :
        in \in {Input(markup, s, AllCallbacks) :
                    markup \in UNION {PlainMarkup(n, Depths) : n \in 1..MaxSections},
                    s \in Speeds},
        cb \in {"startSliding", "sliding"},
        op \in {"forward", "backward"}}

(* ---------------------------- specification ---------------------------- *)
\* the state new wink.plugins.Projection(properties) leaves, for one of inputs
Constructed(inputs) ==
    \E in \in inputs :
        /\ properties = in.properties
        /\ list_sections = in.list_sections
        /\ LET this == Projection(in.properties, in.list_sections)
           IN /\ layers = this.layers
              /\ speed = this.speed
              /\ _callbacks = this._callbacks
              /\ _map = this._map
              /\ _used = this._used
              /\ _timeout = this._timeout
              /\ _startPos = this._startPos
              /\ _currPos = this._currPos
              /\ _endPos = this._endPos
              /\ translateZ = this.translateZ
              /\ timers = this.timers
              /\ reentrant = in.reentrant
              /\ calls = this.calls
              /\ path = <<this._currPos>>
        /\ hist = <<>>

Init == Constructed(Inputs)

\* a move request that finds no animation in flight starts a new record of
\* callbacks and positions
Requested(this) ==
    IF Animating(this)
    THEN this
    ELSE [this EXCEPT !.calls = <<>>, !.path = <<this._currPos>>]

\* hist after a call of op: a request that finds an animation in flight is
\* dropped and leaves no trace
Remember(op) ==
    IF Animating(This)
    THEN hist
    ELSE (IF hist = <<>> THEN <<>> ELSE <<hist[Len(hist)]>>)
         \o <<[op |-> op, from |-> _used]>>

\* the gesture or wheel listener calls move_forward; on an empty layer list
\* the call throws before it assigns anything
MoveForward ==
    /\ layers # <<>>
    /\ \E after \in {move_forward(Requested(This))} : Becomes(after)
    /\ hist' = Remember("forward")

MoveBackward ==
    /\ layers # <<>>
    /\ \E after \in {move_backward(Requested(This))} : Becomes(after)
    /\ hist' = Remember("backward")

\* the record of a move that setDepth has interfered with stays empty
Unrecorded(this) == [this EXCEPT !.calls = <<>>, !.path = <<>>]

\* the record holds the positions of a move that ends within the depths of
\* the layers; a longer one is dropped
RecordLen == MaxDepth + 2

Recorded(this) ==
    IF path = <<>> \/ Len(this.path) > RecordLen
    THEN Unrecorded(this)
    ELSE this

\* a pending setTimeout call fires: _moveTo(depth)
TimerFires ==
    \E t \in timers :
        \E fired \in {[This EXCEPT !.timers = @ \ {t}]} :
            \E moved \in {_moveTo(fired, t.depth)} :
                \E after \in {Recorded(moved)} :
                    /\ Becomes(after)
                    /\ UNCHANGED hist

\* the page calls setDepth(value)
SetDepth ==
    \E value \in SetDepthValues :
        \E after \in {Unrecorded(setDepth(This, value))} :
            /\ Becomes(after)
            /\ UNCHANGED hist

Next == MoveForward \/ MoveBackward \/ TimerFires \/ SetDepth

Spec == Init /\ [][Next]_vars

\* the page calls setDepth at most once from one accepted move request to the
\* next
SetDepthOnce == path # <<>> /\ SetDepth

NextFair == MoveForward \/ MoveBackward \/ TimerFires \/ SetDepthOnce

\* a widget with one or two pannels, at any depths and with any speed
InitFair ==
    Constructed({Input(markup, s, {}) :
                    markup \in PlainMarkup(1, Depths) \cup PlainMarkup(2, Depths),
                    s \in Speeds})

\* the event loop runs every callback that setTimeout has scheduled, and
\* setDepth is not called without end while a move is in flight
SpecFair == InitFair /\ [][NextFair]_vars /\ WF_vars(TimerFires)

\* the widget in a page whose callbacks call its move methods
InitReentrant == Constructed(ReentrantInputs)

SpecReentrant == InitReentrant /\ [][Next]_vars

\* the widget after a construction that _validateProperties stopped: the page
\* holds the object and calls its move methods
InitRejected == Constructed(InvalidInputs)

NextRejected == MoveForward \/ MoveBackward \/ TimerFires

SpecRejected == InitRejected /\ [][NextRejected]_vars

(* ------------------------------ claims --------------------------------- *)
Abs(n) == IF n < 0 THEN -n ELSE n

\* the state the constructor leaves: no move was ever requested and setDepth
\* was never called
AfterConstruction == _startPos = null /\ path # <<>>

\* C1: after construction and after any sequence of move_forward,
\* move_backward, setDepth calls and timer steps, the layers are sorted
\* ascending by depth.
C1_LayersSorted ==
    \A i \in 1..(Len(layers) - 1) : layers[i].depth <= layers[i + 1].depth

\* Three layers that the scan collected in another order than their depths,
\* after an advance whose animation setDepth has interfered with.
C1_Witness ==
    /\ Len(layers) = 3
    /\ layers[1].element > layers[3].element
    /\ layers[1].depth < layers[3].depth
    /\ _used = 1
    /\ timers # {}
    /\ path = <<>>

\* C2: immediately after construction _currPos is the minimum depth among
\* the layers, whether they were given in properties.layers or discovered
\* from the markup.
C2_StartsAtMinDepth ==
    (AfterConstruction /\ layers # <<>>) =>
        /\ \A i \in 1..Len(layers) : _currPos <= layers[i].depth
        /\ \E i \in 1..Len(layers) : _currPos = layers[i].depth

\* Just constructed: the deepest layer is the one given in properties.layers,
\* its section is the last of three in the markup and the two discovered
\* layers are shallower.
C2_Witness ==
    /\ AfterConstruction
    /\ Len(layers) = 3
    /\ Len(properties.layers) = 1
    /\ properties.layers[1].element = 3
    /\ _currPos = properties.layers[1].depth
    /\ \A i \in 1..Len(layers) :
           layers[i].element # 3 => layers[i].depth > _currPos

\* a move was accepted, has finished, and setDepth has not interfered since
\* it was requested
Finished ==
    /\ _startPos # null
    /\ path # <<>>
    /\ _timeout = null
    /\ timers = {}

\* the depth the last accepted move animates toward
Target == At(layers, _used).depth

\* C3: when an animation started by advance or retreat finishes, _currPos
\* equals the target depth, whatever the layer depths and the step size.
C3_FinishesAtTarget == Finished => _currPos = Target

\* C4: a move request that arrives while an animation is in flight changes
\* nothing: index, start and end depths, target, _currPos and pending timer
\* are unchanged and no callback is invoked.
C4_RequestWhileAnimatingIgnored ==
    timers # {} =>
        /\ move_forward(This) = This
        /\ move_backward(This) = This

\* An animation in flight on a widget with callbacks, at a pannel from which
\* an accepted request would move in either direction.
C4_Witness ==
    /\ timers # {}
    /\ _callbacks = CallbackNames
    /\ getNextPannel(This) # _used
    /\ getPreviousPanel(This) # _used
    /\ _currPos # Target

\* a move was accepted and setDepth has not interfered since it was requested:
\* path[1] is where it started, path[k + 1] is _currPos after k invocations
\* of _moveTo
Tracked == _startPos # null /\ path # <<>>

\* the distance of the last accepted move is a multiple of the step size
Multiple == Abs(Target - path[1]) % speed = 0

\* the invocations of _moveTo so far in the last accepted move
Invocations == Len(path) - 1

Between(a, x, b) == (a <= x /\ x <= b) \/ (b <= x /\ x <= a)

NeverBeyond == \A k \in 1..Len(path) : Between(path[1], path[k], Target)

\* C5, as stated: an animation from c toward t by s, with |t - c| a multiple
\* of s, is finished after exactly |t - c| / s invocations of the step
\* function and never passes beyond t (stated for c # t, an animation that
\* has somewhere to go).
C5_StepCount ==
    (Tracked /\ Multiple /\ path[1] # Target) =>
        /\ NeverBeyond
        /\ Finished => Invocations = Abs(Target - path[1]) \div speed

\* adjacent layers differ in depth by a multiple of the step size
AdjacentMultiples ==
    \A j \in 1..(Len(layers) - 1) :
        (layers[j + 1].depth - layers[j].depth) % speed = 0

\* the last accepted move request
Last == hist[Len(hist)]

Min(a, b) == IF a < b THEN a ELSE b

\* C6: with adjacent depths that differ by multiples of the step size,
\* advance() from an idle widget at pannel i (not the last, _currPos at its
\* depth) drives _currPos through depth(i), depth(i) + step, ..., depth(i+1)
\* in that order with no other values and settles with pannel index i + 1.
C6_AdvanceSweeps ==
    (/\ Tracked
     /\ AdjacentMultiples
     /\ Last.op = "forward"
     /\ Last.from < Len(layers) - 1
     /\ path[1] = At(layers, Last.from).depth)
    =>
        /\ \A k \in 1..Len(path) :
               path[k] = Min(path[1] + (k - 1) * speed,
                             At(layers, Last.from + 1).depth)
        /\ _used = Last.from + 1
        /\ Finished => _currPos = At(layers, Last.from + 1).depth

\* The advance from pannel 0 at depth 0 to pannel 1 at depth 2 by steps of 1
\* has settled, with a third layer behind.
C6_Witness ==
    /\ Finished
    /\ Len(layers) = 3
    /\ layers[1].depth = 0
    /\ layers[2].depth = 2
    /\ Last = [op |-> "forward", from |-> 0]
    /\ path = <<0, 1, 2, 2>>
    /\ _used = 1

\* the callbacks of the record that are calls of name
CallsOf(name) == {k \in 1..Len(calls) : calls[k].cb = name}

\* C7: every accepted move, by advance or by retreat, invokes the
\* start-of-move callback once, before any progress callback, the progress
\* callback once per non-final step and the end-of-move callback once, on
\* convergence, after every progress callback.
C7_CallbackOrder ==
    (Tracked /\ _callbacks = CallbackNames) =>
        /\ calls # <<>>
        /\ CallsOf("startSliding") = {1}
        /\ IF Finished
           THEN /\ CallsOf("endSliding") = {Len(calls)}
                /\ CallsOf("sliding") = 2..(Len(calls) - 1)
                /\ Cardinality(CallsOf("sliding")) = Invocations - 1
           ELSE /\ CallsOf("endSliding") = {}
                /\ CallsOf("sliding") = 2..Len(calls)
                /\ Cardinality(CallsOf("sliding")) = Invocations

\* C8: with a non-empty layer list the index of the current pannel stays
\* within [0, last index] and no step changes it by more than one.
C8_IndexInRange ==
    /\ [](layers # <<>> => _used \in 0..(Len(layers) - 1))
    /\ [][Abs(_used' - _used) <= 1]_vars

\* At the last of three pannels, after an advance that found the widget
\* there already and a setDepth call.
C8_Witness ==
    /\ Len(layers) = 3
    /\ _used = 2
    /\ hist # <<>>
    /\ Last = [op |-> "forward", from |-> 2]
    /\ path = <<>>

\* C9: from an idle widget at an interior pannel i, advance() run to
\* completion and then retreat() run to completion leave the index at i.
C9_AdvanceThenRetreat ==
    (/\ Len(hist) = 2
     /\ hist[1].op = "forward"
     /\ hist[2].op = "backward"
     /\ hist[1].from > 0
     /\ hist[1].from < Len(layers) - 1)
    => _used = hist[1].from

\* Both moves were accepted, in that order, from an interior pannel, and the
\* animation of the retreat has taken steps and finished.
C9_Witness ==
    /\ Len(hist) = 2
    /\ hist[1].op = "forward"
    /\ hist[2].op = "backward"
    /\ hist[1].from > 0
    /\ hist[1].from < Len(layers) - 1
    /\ Finished
    /\ Invocations > 1
    /\ _used = hist[1].from

\* C10: advance() at the last index and retreat() at index 0 leave the index
\* unchanged, in every reachable state and so however often they are
\* repeated.
C10_ClampedAtEnds ==
    layers # <<>> =>
        /\ _used = Len(layers) - 1 => move_forward(This)._used = _used
        /\ _used = 0 => move_backward(This)._used = _used

\* Two advances in a row were accepted at the last of several pannels and
\* the index is still the last.
C10_Witness ==
    /\ Len(layers) > 1
    /\ hist = <<[op |-> "forward", from |-> Len(layers) - 1],
                [op |-> "forward", from |-> Len(layers) - 1]>>
    /\ _used = Len(layers) - 1
    /\ _timeout = null

\* the fields as the constructor sets them before it validates
Untouched ==
    /\ layers = properties.layers
    /\ _map = <<>>
    /\ _used = 0
    /\ _timeout = null
    /\ _startPos = null
    /\ _currPos = null
    /\ _endPos = null

\* C11: a construction that fails validation leaves the widget inert: no
\* layer is parsed, no transform is written, _currPos stays unset, and no later
\* move_forward or move_backward call changes the state of the widget or
\* schedules a timer.
C11_InertAfterRejection ==
    /\ Untouched
    /\ translateZ = <<>>
    /\ timers = {}

\* the section is the element of a layer given in properties.layers
Configured(section) ==
    \E i \in 1..Len(properties.layers) :
        properties.layers[i].element = section.element

\* the section has an id and a depth annotation, and each of its children
\* has one of its own or none, to take its parent's
WellFormed(section) ==
    /\ section.id # NoId
    /\ section.className \in {DepthClass(d) : d \in Depths}
    /\ \A j \in 1..Len(section.children) :
           section.children[j].className
               \in {NoClass} \cup {DepthClass(d) : d \in Depths}

\* the well-formed sections that properties.layers does not name
Discovered ==
    {k \in 1..Len(list_sections) :
        ~Configured(list_sections[k]) /\ WellFormed(list_sections[k])}

\* C12: the scan leaves out every section without an id or without a
\* recognizable depth annotation and processes every other section: the layer
\* list holds exactly the layers of properties.layers and one layer, with the
\* annotated depth, for each well-formed section discovered in the markup.
C12_MalformedSkipped ==
    /\ Len(layers) = Len(properties.layers) + Cardinality(Discovered)
    /\ \A i \in 1..Len(properties.layers) :
           \E j \in 1..Len(layers) : layers[j] = properties.layers[i]
    /\ \A k \in Discovered :
           \E j \in 1..Len(layers) :
               /\ layers[j].element = list_sections[k].element
               /\ layers[j].depth = list_sections[k].className.digits[1]

\* A malformed section stands before a well-formed one that the scan went on
\* to take a layer from.
C12_Witness ==
    \E k \in 1..(Len(list_sections) - 1) :
        /\ ~Configured(list_sections[k])
        /\ ~WellFormed(list_sections[k])
        /\ k + 1 \in Discovered
        /\ Len(layers) = Len(list_sections) - 1
        /\ \E j \in 1..Len(layers) : layers[j].element = list_sections[k + 1].element

\* C13: after any sequence of move_forward, move_backward, setDepth calls and
\* timer steps at most one invocation of _moveTo is pending, and _timeout is
\* not null exactly when one is pending; the pending one is the timer that
\* _timeout names.
C13_OnePendingTimer ==
    /\ Cardinality(timers) <= 1
    /\ _timeout # null <=> timers # {}
    /\ \A t \in timers : t.id = _timeout

\* A move was accepted, has taken several steps and has one more pending.
C13_Witness ==
    /\ Tracked
    /\ Invocations > 2
    /\ Cardinality(timers) = 1
    /\ _timeout # null

Idle == _timeout = null /\ timers = {}

\* C14: provided the pending timer keeps firing and setDepth is called only
\* finitely often, every accepted move finishes: whenever a step is pending
\* the widget is idle again later, with no timer and _timeout null, so that
\* the next move request is accepted.
C14_MoveFinishes == [](timers # {} => <>Idle)

\* A second move was accepted after the first had finished, and has itself
\* finished after several steps.
C14_Witness ==
    /\ Idle
    /\ Len(hist) = 2
    /\ Tracked
    /\ Invocations > 2

\* C15: a move request that a lifecycle callback issues while a move is being
\* started or stepped is dropped: it starts no second step sequence, so that
\* at most one invocation of _moveTo is pending and it heads for the depth of
\* the current pannel.
C15_ReentrantRequestDropped ==
    /\ Cardinality(timers) <= 1
    /\ \A t \in timers : t.depth = Target

\* C16: after construction, after every step of an animation, the final one
\* included, and after every setDepth call, the translateZ written to every
\* layer element and to every child element is _currPos minus the depth of
\* that element.
C16_OffsetsFollowCurrentDepth ==
    \A i \in 1..Len(translateZ) :
        /\ translateZ[i].z = _currPos - layers[i].depth
        /\ \A j \in 1..Len(translateZ[i].children) :
               translateZ[i].children[j] = _currPos - layers[i].children[j].depth

\* |currentDepth - targetDepth|, the target being the depth of the pannel the
\* last accepted move set out for
Distance == Abs(Num(_currPos) - Target)

\* C17, as stated: from the moment a move is accepted until it finishes the
\* distance between _currPos and the target never increases from one state to
\* the next, whatever is interleaved with the timer steps: move_forward,
\* move_backward or setDepth calls.
C17_DistanceNeverIncreases ==
    [][timers # {} => Distance' <= Distance]_vars

\* C17, amended: the distance never increases across a timer step or across a
\* move_forward or move_backward call, accepted or dropped; a setDepth call
\* made during the move sets _currPos and may increase it.
C17_StepsNeverIncreaseDistance ==
    [][(TimerFires \/ MoveForward \/ MoveBackward)
           => Abs(Num(_currPos') - Target') <= Abs(Num(_currPos) - Target')]_vars

\* A move is in flight, two steps from where it was accepted and closer to
\* its target than it was then.
C17_Witness ==
    /\ Tracked
    /\ timers # {}
    /\ Invocations = 2
    /\ Distance < Abs(path[1] - Target)

\* C18: whenever the widget is idle, after construction and after any
\* sequence of moves that ran to completion with no setDepth call, _currPos
\* differs from the depth of the layer at the current pannel index by less
\* than one speed.
C18_IdleWithinOneStep ==
    (layers # <<>> /\ Idle /\ path # <<>>) => Abs(_currPos - Target) < speed

\* Two moves ran to completion and the second stopped short of the depth of
\* its pannel.
C18_Witness ==
    /\ Idle
    /\ Tracked
    /\ Len(hist) = 2
    /\ Invocations > 1
    /\ _currPos # Target

\* the object after setDepth(value) has what the claim says it has: _currPos
\* is value and the index, the start and end depths, the timer, the pending
\* steps with their target, the layers and the record of callbacks are as
\* before
SetDepthFrame(value) ==
    LET after == setDepth(This, value)
    IN /\ after._currPos = value
       /\ after._used = _used
       /\ after._startPos = _startPos
       /\ after._endPos = _endPos
       /\ after._timeout = _timeout
       /\ after.timers = timers
       /\ after.layers = layers
       /\ after.calls = calls

\* C19: setDepth(value), called in any state, sets _currPos to value and
\* leaves the current pannel index, _startPos and _endPos, the pending timer
\* and its target and the layer list unchanged, and invokes no callback.
C19_SetDepthFrame == \A value \in Depths : SetDepthFrame(value)

\* setDepth was called while a move was in flight: the step is still pending
\* and _currPos is where setDepth put it, beyond the target of the move.
C19_Witness ==
    /\ timers # {}
    /\ _timeout # null
    /\ path = <<>>
    /\ _currPos = MaxDepth
    /\ _endPos < MaxDepth
    /\ _startPos < _endPos

\* C20: after construction _map sends the id of every layer, given in the
\* properties or discovered in the markup, to the index of that layer in
\* layers, and no id belongs to two layers.
C20_MapSendsIdToIndex ==
    /\ \A i \in 0..(Len(layers) - 1) :
           /\ At(layers, i).element \in DOMAIN _map
           /\ _map[At(layers, i).element] = i
    /\ \A i, j \in 0..(Len(layers) - 1) :
           At(layers, i).element = At(layers, j).element => i = j

====
